---- MODULE Spec2Model ----
(***************************************************************************)
(* The avatar control channel (HeyGenWebSocketClient) and the event bridge *)
(* (OpenAIHeyGenBridge) of the relay, as one state machine.  Every handler *)
(* of the two classes is one action; the transport (the ws sockets) and    *)
(* the Node timers are the environment that delivers open / message /      *)
(* error / close events and fires timers, one callback at a time.          *)
(***************************************************************************)
EXTENDS Integers, Sequences, FiniteSets, Bags, TLC

\* ---- bounds of the model ------------------------------------------------
MaxSockets == 6
MaxConnectCalls == 2
MaxSpeakTimers == 1
BridgeSockets == 2
MaxSessions == 2

\* ---- program constants --------------------------------------------------
maxReconnectAttempts == 5
reconnectDelay == 1000
NormalClosure == 1000

\* close codes a 'close' event may carry: the deliberate code, or the
\* transport's "abnormal closure" code
CloseCodes == {NormalClosure, 1006}

\* readyState of a socket, refined: ABORTED is a socket closed by the client
\* before it opened (its 'error' and 'close' events are still to come), FAILED
\* a socket whose 'error' event was delivered and whose 'close' is to come.
SockStates == {"CONNECTING", "OPEN", "CLOSING", "ABORTED", "FAILED", "CLOSED"}

\* topics the bridge subscribes to on the channel
BridgeTopics ==
    {"agent.speak_started", "agent.speak_ended", "agent.speak_interrupted",
     "agent.idle_started", "agent.idle_ended"}

\* inbound messages: a payload JSON.parse rejects ("malformed"), one that parses
\* to null (reading its type fails), or a parsed event of a type
InboundTypes == BridgeTopics \cup {"agent.other", "event", "error"}
Unparsable == {"malformed", "null"}
Messages == Unparsable \cup InboundTypes

\* events relayed from the conversational-AI leg; audio is the value of
\* (event.audio || event.delta): "" when neither is present or both are empty
AudioTypes == {"response.audio", "response.audio.delta"}
OtherTypes ==
    {"response.text", "response.text.delta", "response.audio_transcript.done",
     "response.text.done", "response.done", "input_text", "input_audio",
     "input_audio.stop", "error", "unhandled"}
TextTypes == {"response.text", "response.text.delta"}
\* a text field that holds something other than a string
NotAString == "<number>"
OpenAIEvents ==
    [type : AudioTypes, audio : {"", "pcm"}, text : {""}]
        \cup [type : OtherTypes, audio : {""}, text : {""}]
        \cup [type : {"response.text"}, audio : {""}, text : {"hello", NotAString}]

\* the seven outbound command types
CommandTypes ==
    {"agent.speak", "agent.speak_end", "agent.interrupt", "agent.start_listening",
     "agent.stop_listening", "agent.audio_buffer_clear", "session.keep_alive"}

VARIABLES
    client,           \* the channel's fields: ws, isConnected, reconnectAttempts, heartbeatInterval
    bridge,           \* the bridge's fields: heygenClient, currentSpeakEventId, isListening
    sock,             \* the sockets created so far, by creation order: each one's readyState
    reconnectTimers,  \* pending reconnection timeouts: a bag of their delays
    intervals,        \* the keep-alive intervals that are running
    speakTimers,      \* pending speakText continuations, named by the id their call got
    listeners,        \* the topics of the channel that have a subscriber
    connectCalls,     \* how many explicit connect() calls were made
    abnormalCloses,   \* how many abnormal closures in a row, with no open or normal closure between
    uncaught,         \* an exception left a callback uncaught: the process is gone
    activeSessions,   \* the session registry: the record stored under each session id
    objects,          \* the channel and bridge pairs constructed so far, by creation order
    creating,         \* session creations that await their channel's connect()
    sessionIds,       \* how many session ids were generated
    last              \* what the last handler did: its commands, notifications, outcome

registry == <<activeSessions, objects, creating, sessionIds>>

vars ==
    <<client, bridge, sock, reconnectTimers, intervals, speakTimers, listeners,
      connectCalls, abnormalCloses, uncaught, activeSessions, objects, creating,
      sessionIds, last>>

\* ---- what a handler is observed to do ------------------------------------
NoObs ==
    [op |-> "init", arg |-> "", out |-> <<>>, emitted |-> <<>>, threw |-> FALSE,
     ret |-> 0, settled |-> "none", scheduled |-> -1,
     status |-> 0, body |-> <<>>, posted |-> <<>>]

Obs(op, arg) == [NoObs EXCEPT !.op = op, !.arg = arg]

\* ---- the channel: pure parts ----------------------------------------------

\* the socket the channel refers to is open
TransportOpen(c, socks) == c.ws # 0 /\ socks[c.ws] = "OPEN"

isConnectionOpen(c, socks) == c.isConnected /\ TransportOpen(c, socks)

\* the transport's send: transmits on an open socket, throws on one that is
\* still connecting, and on a closing or closed one loses the data silently
wsSend(readyState) ==
    IF readyState = "OPEN" THEN "sent"
    ELSE IF readyState = "CONNECTING" THEN "threw"
    ELSE "lost"

\* private send(event): "sent", "dropped" (logged, nothing transmitted), or the
\* transport's failure
send_AlwaysTransmit(c, socks) ==
    IF c.ws # 0 THEN wsSend(socks[c.ws]) ELSE "sent"

send(c, socks) ==
    IF c.ws # 0 /\ c.isConnected THEN wsSend(socks[c.ws]) ELSE "dropped"

\* a timer object the runtime has not handed out
FreshInterval(running) == CHOOSE i \in 1..(Cardinality(running) + 1) : i \notin running

stopHeartbeat(c) == [c EXCEPT !.heartbeatInterval = 0]

\* the intervals left running after stopHeartbeat
ClearedIntervals(c, running) == running \ {c.heartbeatInterval}

\* the close handler's reconnection test and the delay it schedules with
ShouldReconnect_NoCodeTest(c, code) == c.reconnectAttempts < maxReconnectAttempts

ShouldReconnect(c, code) ==
    code # NormalClosure /\ c.reconnectAttempts < maxReconnectAttempts

ScheduledDelay_AfterIncrement(c) == reconnectDelay * (c.reconnectAttempts + 1)

ScheduledDelay(c) == reconnectDelay * c.reconnectAttempts

\* ws.close(1000, ...) on a socket
wsClose(readyState) ==
    CASE readyState = "OPEN" -> "CLOSING"
      [] readyState = "CONNECTING" -> "ABORTED"
      [] OTHER -> readyState

\* ---- the channel: handlers -------------------------------------------------

\* the body of connect(): a new socket, referred to by this.ws
NewSocket(limit) ==
    /\ Len(sock) < limit
    /\ sock' = Append(sock, "CONNECTING")

\* an explicit connect() call
Connect(limit, calls) ==
    /\ ~uncaught
    /\ connectCalls < calls
    /\ NewSocket(limit)
    /\ client' = [client EXCEPT !.ws = Len(sock) + 1]
    /\ connectCalls' = connectCalls + 1
    /\ last' = Obs("connect", "")
    /\ UNCHANGED <<bridge, reconnectTimers, intervals, speakTimers, listeners,
                   uncaught, abnormalCloses>>
    /\ UNCHANGED registry

\* the provider events the bridge listens to
OnProviderEvent_EndedOnly(b, topic) ==
    IF topic = "agent.speak_ended" THEN [b EXCEPT !.currentSpeakEventId = 0] ELSE b

OnProviderEvent(b, topic) ==
    IF topic \in {"agent.speak_ended", "agent.speak_interrupted"}
        THEN [b EXCEPT !.currentSpeakEventId = 0]
        ELSE b

\* the open handler's assignments: connected, counter reset, and the interval
\* startHeartbeat() stores
onOpen_KeepAttempts(c, t) ==
    [c EXCEPT !.isConnected = TRUE, !.heartbeatInterval = t]

onOpen(c, t) ==
    [c EXCEPT !.isConnected = TRUE, !.reconnectAttempts = 0, !.heartbeatInterval = t]

\* socket s reports 'open'
SockOpen(s) ==
    /\ ~uncaught
    /\ sock[s] = "CONNECTING"
    /\ sock' = [sock EXCEPT ![s] = "OPEN"]
    /\ LET t == FreshInterval(intervals)
       IN /\ client' = onOpen(client, t)
          /\ intervals' = intervals \cup {t}
    /\ last' = [Obs("open", s) EXCEPT !.emitted = <<"connected">>,
                                      !.settled = "resolved"]
    /\ abnormalCloses' = 0
    /\ UNCHANGED <<bridge, reconnectTimers, speakTimers, listeners,
                   connectCalls, uncaught>>
    /\ UNCHANGED registry

\* handleEvent: the topics a parsed event is emitted under, in order; emitting
\* 'error' with no subscriber throws, which the message handler's catch takes
handleEvent(type, subs) ==
    IF type = "error" /\ "error" \notin subs THEN <<>> ELSE <<type, "event">>

\* the message handler: the topics it emits under; a payload that fails in
\* JSON.parse or in handleEvent is caught and logged
onMessage_ForwardsUnparsed(msg, subs) == <<msg, "event">>

onMessage(msg, subs) ==
    IF msg \in Unparsable THEN <<>> ELSE handleEvent(msg, subs)

\* socket s delivers a message
SockMessage(s, msg) ==
    /\ ~uncaught
    /\ sock[s] = "OPEN"
    /\ LET topics == onMessage(msg, listeners)
           heard == {topics[i] : i \in 1..Len(topics)} \cap listeners \cap BridgeTopics
       IN /\ bridge' = IF heard = {} THEN bridge
                       ELSE OnProviderEvent(bridge, CHOOSE t \in heard : TRUE)
          /\ last' = [Obs("message", msg) EXCEPT !.emitted = topics]
    /\ UNCHANGED <<client, sock, reconnectTimers, intervals, speakTimers, listeners,
                   connectCalls, uncaught, abnormalCloses>>
    /\ UNCHANGED registry

\* socket s reports 'error': emit('error') throws when nobody subscribed, and
\* the exception leaves the transport's callback uncaught; otherwise the
\* connect() promise of s is rejected (a no-op once it was resolved)
SockError(s) ==
    /\ ~uncaught
    /\ sock[s] \in {"CONNECTING", "OPEN", "ABORTED"}
    /\ sock' = [sock EXCEPT ![s] = "FAILED"]
    /\ IF "error" \in listeners
         THEN /\ last' = [Obs("error", s) EXCEPT
                            !.emitted = <<"error">>,
                            !.settled = IF sock[s] = "OPEN" THEN "none" ELSE "rejected"]
              /\ UNCHANGED uncaught
         ELSE /\ last' = [Obs("error", s) EXCEPT !.emitted = <<"error">>, !.threw = TRUE]
              /\ uncaught' = TRUE
    /\ UNCHANGED <<client, bridge, reconnectTimers, intervals, speakTimers, listeners,
                   connectCalls, abnormalCloses>>
    /\ UNCHANGED registry

\* socket s reports 'close' with a code
SockClose(s, code) ==
    /\ ~uncaught
    /\ \/ sock[s] \in {"OPEN", "CLOSING"}
       \/ sock[s] = "FAILED" /\ code # NormalClosure
    /\ sock' = [sock EXCEPT ![s] = "CLOSED"]
    /\ client' = stopHeartbeat([client EXCEPT !.isConnected = FALSE])
    /\ intervals' = ClearedIntervals(client, intervals)
    /\ IF ShouldReconnect(client, code)
         THEN /\ reconnectTimers' = reconnectTimers (+) SetToBag({ScheduledDelay(client)})
              /\ last' = [Obs("close", code) EXCEPT !.emitted = <<"disconnected">>,
                                                    !.scheduled = ScheduledDelay(client)]
         ELSE /\ UNCHANGED reconnectTimers
              /\ last' = [Obs("close", code) EXCEPT !.emitted = <<"disconnected">>]
    /\ abnormalCloses' = IF code = NormalClosure THEN 0 ELSE abnormalCloses + 1
    /\ UNCHANGED <<bridge, speakTimers, listeners, connectCalls, uncaught>>
    /\ UNCHANGED registry

\* a reconnection timeout of delay d fires
ReconnectTimerFire(d, limit) ==
    /\ ~uncaught
    /\ BagIn(d, reconnectTimers)
    /\ NewSocket(limit)
    /\ reconnectTimers' = reconnectTimers (-) SetToBag({d})
    /\ client' = [client EXCEPT !.reconnectAttempts = @ + 1, !.ws = Len(sock) + 1]
    /\ last' = Obs("reconnect", d)
    /\ UNCHANGED <<bridge, intervals, speakTimers, listeners, connectCalls,
                   uncaught, abnormalCloses>>
    /\ UNCHANGED registry

\* disconnect(): the new channel fields and sockets
disconnect_NoHeartbeatStop(c) == [c EXCEPT !.ws = 0, !.isConnected = FALSE]

disconnect(c) == [stopHeartbeat(c) EXCEPT !.ws = 0, !.isConnected = FALSE]

ClosedByClient(c, socks) ==
    IF c.ws # 0 THEN [socks EXCEPT ![c.ws] = wsClose(@)] ELSE socks

\* an explicit disconnect() call on the channel
Disconnect ==
    /\ ~uncaught
    /\ client' = disconnect(client)
    /\ intervals' = ClearedIntervals(client, intervals)
    /\ sock' = ClosedByClient(client, sock)
    /\ last' = Obs("disconnect", "")
    /\ UNCHANGED <<bridge, reconnectTimers, speakTimers, listeners,
                   connectCalls, uncaught, abnormalCloses>>
    /\ UNCHANGED registry

\* ---- outbound commands ------------------------------------------------------

\* The state a handler runs on: the bridge's fields, the commands issued so far
\* by this handler, whether it threw, the last identifier returned to it, and
\* the event type its switch dispatched on ("" when it has none or returned
\* before it).
HandlerOn(b, c, timers) ==
    [heygenClient |-> b.heygenClient,
     currentSpeakEventId |-> b.currentSpeakEventId,
     isListening |-> b.isListening,
     out |-> <<>>, threw |-> FALSE, ret |-> 0, dispatched |-> "",
     channel |-> c, held |-> {b.currentSpeakEventId} \cup timers]

\* a handler of the bridge and channel of the specifications below
Handler == HandlerOn(bridge, client, speakTimers)

BridgeOf(m) ==
    [heygenClient |-> m.heygenClient,
     currentSpeakEventId |-> m.currentSpeakEventId,
     isListening |-> m.isListening]

\* the identifiers something still holds: the bridge, a pending speakText
\* continuation, or the handler that is running
HeldIds(m) ==
    m.held \cup {m.currentSpeakEventId}
        \cup {m.out[i].event_id : i \in 1..Len(m.out)}

\* generateEventId: a fresh identifier (timestamp and random suffix), named
\* by the least number that names no identifier still held
generateEventId(m) ==
    LET free == (1..(Cardinality(HeldIds(m)) + 1)) \ HeldIds(m)
    IN CHOOSE i \in free : \A j \in free : i <= j

\* sendX(): generate the identifier, build the envelope, send it, return the
\* identifier; an exception of the transport leaves the call without a return
sendEvent(m, type, audio) ==
    LET id == generateEventId(m)
        r == send(m.channel, sock)
    IN [m EXCEPT !.out = Append(@, [type |-> type, event_id |-> id,
                                    audio |-> audio, result |-> r]),
                 !.threw = (r = "threw"),
                 !.ret = IF r = "threw" THEN 0 ELSE id]

sendSpeak(m, audio) == sendEvent(m, "agent.speak", audio)
sendSpeakEnd(m) == sendEvent(m, "agent.speak_end", "undefined")
sendInterrupt(m) == sendEvent(m, "agent.interrupt", "undefined")
sendStartListening(m) == sendEvent(m, "agent.start_listening", "undefined")
sendStopListening(m) == sendEvent(m, "agent.stop_listening", "undefined")
sendAudioBufferClear(m) == sendEvent(m, "agent.audio_buffer_clear", "undefined")
sendKeepAlive(m) == sendEvent(m, "session.keep_alive", "undefined")

sendCommand(m, type, audio) ==
    CASE type = "agent.speak" -> sendSpeak(m, audio)
      [] type = "agent.speak_end" -> sendSpeakEnd(m)
      [] type = "agent.interrupt" -> sendInterrupt(m)
      [] type = "agent.start_listening" -> sendStartListening(m)
      [] type = "agent.stop_listening" -> sendStopListening(m)
      [] type = "agent.audio_buffer_clear" -> sendAudioBufferClear(m)
      [] OTHER -> sendKeepAlive(m)

\* what a handler leaves behind
Outcome(op, arg, m) ==
    [Obs(op, arg) EXCEPT !.out = m.out, !.threw = m.threw, !.ret = m.ret]

\* a caller invokes one of the channel's command operations directly
CallSend(type) ==
    /\ ~uncaught
    /\ LET m == sendCommand(Handler, type, IF type = "agent.speak" THEN "pcm" ELSE "undefined")
       IN last' = Outcome("send", type, m)
    /\ UNCHANGED <<client, bridge, sock, reconnectTimers, intervals, speakTimers,
                   listeners, connectCalls, uncaught, abnormalCloses>>
    /\ UNCHANGED registry

\* a keep-alive interval fires; an exception leaves the timer callback uncaught
HeartbeatTick(t) ==
    /\ ~uncaught
    /\ t \in intervals
    /\ LET m == sendKeepAlive(Handler)
       IN /\ last' = Outcome("heartbeat", t, m)
          /\ uncaught' = m.threw
    /\ UNCHANGED <<client, bridge, sock, reconnectTimers, intervals, speakTimers,
                   listeners, connectCalls, abnormalCloses>>
    /\ UNCHANGED registry

\* ---- the bridge: handlers ---------------------------------------------------

handleOpenAIAudio_AlwaysAssign(m, audio) ==
    IF ~m.heygenClient THEN m
    ELSE LET s == sendSpeak(m, audio)
         IN IF s.threw THEN s ELSE [s EXCEPT !.currentSpeakEventId = s.ret]

handleOpenAIAudio(m, audio) ==
    IF ~m.heygenClient THEN m
    ELSE LET s == sendSpeak(m, audio)
         IN IF s.threw THEN s
            ELSE IF m.currentSpeakEventId = 0
                   THEN [s EXCEPT !.currentSpeakEventId = s.ret]
                   ELSE s

\* logs only
handleOpenAIText_Speaks(m) == IF ~m.heygenClient THEN m ELSE sendSpeak(m, "tts")

handleOpenAIText(m) == m

handleOpenAIResponseDone_NoClear(m) ==
    IF ~m.heygenClient THEN m
    ELSE IF m.currentSpeakEventId # 0 THEN sendSpeakEnd(m) ELSE m

handleOpenAIResponseDone(m) ==
    IF ~m.heygenClient THEN m
    ELSE IF m.currentSpeakEventId # 0
           THEN LET s == sendSpeakEnd(m)
                IN IF s.threw THEN s ELSE [s EXCEPT !.currentSpeakEventId = 0]
           ELSE m

handleUserTextInput_NoBufferClear(m) ==
    IF ~m.heygenClient THEN m
    ELSE IF ~m.isListening
           THEN LET s == sendStartListening(m)
                IN IF s.threw THEN s ELSE [s EXCEPT !.isListening = TRUE]
           ELSE m

handleUserTextInput(m) ==
    IF ~m.heygenClient THEN m
    ELSE LET a == IF ~m.isListening
                    THEN LET s == sendStartListening(m)
                         IN IF s.threw THEN s ELSE [s EXCEPT !.isListening = TRUE]
                    ELSE m
         IN IF a.threw THEN a ELSE sendAudioBufferClear(a)

handleUserAudioInput_ListenFirst(m) ==
    IF ~m.heygenClient THEN m
    ELSE LET a == IF ~m.isListening
                    THEN LET s == sendStartListening(m)
                         IN IF s.threw THEN s ELSE [s EXCEPT !.isListening = TRUE]
                    ELSE m
         IN IF a.threw THEN a
            ELSE IF a.currentSpeakEventId # 0
                   THEN LET s == sendInterrupt(a)
                        IN IF s.threw THEN s ELSE [s EXCEPT !.currentSpeakEventId = 0]
                   ELSE a

handleUserAudioInput(m) ==
    IF ~m.heygenClient THEN m
    ELSE LET a == IF m.currentSpeakEventId # 0
                    THEN LET s == sendInterrupt(m)
                         IN IF s.threw THEN s ELSE [s EXCEPT !.currentSpeakEventId = 0]
                    ELSE m
         IN IF a.threw THEN a
            ELSE IF ~a.isListening
                   THEN LET s == sendStartListening(a)
                        IN IF s.threw THEN s ELSE [s EXCEPT !.isListening = TRUE]
                   ELSE a

handleUserAudioStop_KeepFlag(m) ==
    IF ~m.heygenClient THEN m
    ELSE IF m.isListening THEN sendStopListening(m) ELSE m

handleUserAudioStop(m) ==
    IF ~m.heygenClient THEN m
    ELSE IF m.isListening
           THEN LET s == sendStopListening(m)
                IN IF s.threw THEN s ELSE [s EXCEPT !.isListening = FALSE]
           ELSE m

\* event.audio || event.delta is truthy
hasAudioData_Always(ev) == TRUE

hasAudioData(ev) == ev.audio # ""

\* the dispatch of processOpenAIEvent, after its precondition check
dispatch(m, ev) ==
    CASE ev.type \in AudioTypes ->
           IF hasAudioData(ev) THEN handleOpenAIAudio(m, ev.audio) ELSE m
      [] ev.type \in TextTypes ->
           IF ev.text = NotAString THEN [m EXCEPT !.threw = TRUE]
           ELSE IF ev.text # "" THEN handleOpenAIText(m) ELSE m
      [] ev.type = "response.done" -> handleOpenAIResponseDone(m)
      [] ev.type = "input_text" -> handleUserTextInput(m)
      [] ev.type = "input_audio" -> handleUserAudioInput(m)
      [] ev.type = "input_audio.stop" -> handleUserAudioStop(m)
      [] OTHER -> m

processOpenAIEvent_NoOpenCheck(m, ev) ==
    IF ~m.heygenClient THEN m
    ELSE dispatch([m EXCEPT !.dispatched = ev.type], ev)

processOpenAIEvent(m, ev) ==
    IF ~m.heygenClient \/ ~isConnectionOpen(m.channel, sock) THEN m
    ELSE dispatch([m EXCEPT !.dispatched = ev.type], ev)

\* speakText: throws without a channel; otherwise a speak command with an empty
\* payload, whose identifier becomes the current one
speakText(m) ==
    IF ~m.heygenClient THEN [m EXCEPT !.threw = TRUE]
    ELSE LET s == sendSpeak(m, "")
         IN IF s.threw THEN s ELSE [s EXCEPT !.currentSpeakEventId = s.ret]

\* the continuation speakText schedules
speakTextTimeout(m) ==
    IF m.currentSpeakEventId # 0
      THEN LET s == IF m.heygenClient THEN sendSpeakEnd(m) ELSE m
           IN IF s.threw THEN s ELSE [s EXCEPT !.currentSpeakEventId = 0]
      ELSE m

interrupt(m) ==
    IF ~m.heygenClient THEN m
    ELSE IF m.currentSpeakEventId # 0
           THEN LET s == sendInterrupt(m)
                IN IF s.threw THEN s ELSE [s EXCEPT !.currentSpeakEventId = 0]
           ELSE m

startListening(m) ==
    IF ~m.heygenClient \/ m.isListening THEN m
    ELSE LET s == sendStartListening(m)
         IN IF s.threw THEN s ELSE [s EXCEPT !.isListening = TRUE]

stopListening_NoFlagReset(m) ==
    IF ~m.heygenClient \/ ~m.isListening THEN m ELSE sendStopListening(m)

stopListening(m) ==
    IF ~m.heygenClient \/ ~m.isListening THEN m
    ELSE LET s == sendStopListening(m)
         IN IF s.threw THEN s ELSE [s EXCEPT !.isListening = FALSE]

\* getState() with the channel's flag in place of isConnectionOpen()
getState_FlagOnly(b, c, socks) ==
    [isConnected |-> b.heygenClient /\ c.isConnected,
     isSpeaking |-> b.currentSpeakEventId # 0,
     isListening |-> b.isListening,
     currentSpeakEventId |-> b.currentSpeakEventId]

\* getState(): the snapshot
getState(b, c, socks) ==
    [isConnected |-> b.heygenClient /\ isConnectionOpen(c, socks),
     isSpeaking |-> b.currentSpeakEventId # 0,
     isListening |-> b.isListening,
     currentSpeakEventId |-> b.currentSpeakEventId]

\* a handler of the bridge that touches only the bridge
BridgeStep(op, m) ==
    /\ bridge' = BridgeOf(m)
    /\ last' = Outcome(op, m.dispatched, m)

ProcessOpenAIEvent(ev) ==
    /\ ~uncaught
    /\ BridgeStep("processOpenAIEvent", processOpenAIEvent(Handler, ev))
    /\ UNCHANGED <<client, sock, reconnectTimers, intervals, speakTimers, listeners,
                   connectCalls, uncaught, abnormalCloses>>
    /\ UNCHANGED registry

SpeakText ==
    /\ ~uncaught
    /\ Cardinality(speakTimers) < MaxSpeakTimers
    /\ LET m == speakText(Handler)
       IN /\ BridgeStep("speakText", m)
          /\ speakTimers' = IF m.threw THEN speakTimers ELSE speakTimers \cup {m.ret}
    /\ UNCHANGED <<client, sock, reconnectTimers, intervals, listeners, connectCalls,
                   uncaught, abnormalCloses>>
    /\ UNCHANGED registry

\* the continuation of the speakText call that got identifier id fires; an
\* exception leaves the timer callback uncaught
SpeakTimerFire(id) ==
    /\ ~uncaught
    /\ id \in speakTimers
    /\ LET m == speakTextTimeout(Handler)
       IN /\ BridgeStep("speakTimeout", m)
          /\ uncaught' = m.threw
    /\ speakTimers' = speakTimers \ {id}
    /\ UNCHANGED <<client, sock, reconnectTimers, intervals, listeners, connectCalls, abnormalCloses>>
    /\ UNCHANGED registry

Interrupt ==
    /\ ~uncaught
    /\ BridgeStep("interrupt", interrupt(Handler))
    /\ UNCHANGED <<client, sock, reconnectTimers, intervals, speakTimers, listeners,
                   connectCalls, uncaught, abnormalCloses>>
    /\ UNCHANGED registry

StartListening ==
    /\ ~uncaught
    /\ BridgeStep("startListening", startListening(Handler))
    /\ UNCHANGED <<client, sock, reconnectTimers, intervals, speakTimers, listeners,
                   connectCalls, uncaught, abnormalCloses>>
    /\ UNCHANGED registry

StopListening ==
    /\ ~uncaught
    /\ BridgeStep("stopListening", stopListening(Handler))
    /\ UNCHANGED <<client, sock, reconnectTimers, intervals, speakTimers, listeners,
                   connectCalls, uncaught, abnormalCloses>>
    /\ UNCHANGED registry

\* a caller reads the bridge's state; getState() assigns nothing and calls
\* only the channel's isConnectionOpen()
GetState ==
    /\ ~uncaught
    /\ last' = [Obs("getState", "") EXCEPT !.body = getState(bridge, client, sock)]
    /\ UNCHANGED <<client, bridge, sock, reconnectTimers, intervals, speakTimers,
                   listeners, connectCalls, uncaught, abnormalCloses>>
    /\ UNCHANGED registry

\* destroy(): the bridge's fields afterwards
destroy_KeepChannel(b) == [b EXCEPT !.currentSpeakEventId = 0, !.isListening = FALSE]

\* destroy() without the reset of currentSpeakEventId
destroy_KeepSpeech(b) == [b EXCEPT !.heygenClient = FALSE, !.isListening = FALSE]

destroy(b) ==
    [heygenClient |-> FALSE, currentSpeakEventId |-> 0, isListening |-> FALSE]

\* destroy(): clears the bridge, disconnects the channel and releases it
Destroy ==
    /\ ~uncaught
    /\ bridge' = destroy(bridge)
    /\ IF bridge.heygenClient
         THEN /\ client' = disconnect(client)
              /\ intervals' = ClearedIntervals(client, intervals)
              /\ sock' = ClosedByClient(client, sock)
         ELSE UNCHANGED <<client, intervals, sock>>
    /\ last' = Obs("destroy", "")
    /\ UNCHANGED <<reconnectTimers, speakTimers, listeners, connectCalls,
                   uncaught, abnormalCloses>>
    /\ UNCHANGED registry

\* ---- the session registry and its routes ------------------------------------

\* the value the registry has for a session id it holds no record of
NoSession ==
    [stored |-> FALSE, heygenSessionId |-> FALSE, heygenWsClient |-> 0,
     openaiHeyGenBridge |-> 0]

\* a stored record: whether it has an avatar session id, and the channel and
\* the bridge it refers to (0 when unset), named by their place in objects
SessionRecord(avatar, channel, br) ==
    [stored |-> TRUE, heygenSessionId |-> avatar, heygenWsClient |-> channel,
     openaiHeyGenBridge |-> br]

\* new HeyGenWebSocketClient(...) and new OpenAIHeyGenBridge(client): a channel
\* that was never connected, a bridge over it, subscribed to its provider
\* events; made is the socket its last connect() created, reconnectTimers the
\* number of reconnections its close handler has scheduled and not yet run
NewPair ==
    [client |-> [ws |-> 0, isConnected |-> FALSE, reconnectAttempts |-> 0,
                 heartbeatInterval |-> 0],
     bridge |-> [heygenClient |-> TRUE, currentSpeakEventId |-> 0, isListening |-> FALSE],
     listeners |-> BridgeTopics, speakTimers |-> {}, made |-> 0,
     reconnectTimers |-> 0]

\* a handler of the bridge of pair o
HandlerOf(o) == HandlerOn(objects[o].bridge, objects[o].client, objects[o].speakTimers)

\* an HTTP response
Respond(op, id, status) == [Obs(op, id) EXCEPT !.status = status]

\* the catch of a rejected connect() unsetting the channel only
CreateWithoutChannel_KeepBridge == SessionRecord(TRUE, 0, 1)

\* the route's catch of a rejected connect(): both objects are left unset
CreateWithoutChannel == SessionRecord(TRUE, 0, 0)

\* POST /api/session/create up to its await of connect(): the provider's REST
\* calls fail or not, the session it returns has a realtime endpoint or not,
\* and the socket's constructor throws or not
CreateSession(character, restOk, endpoint, ctorOk) ==
    /\ ~uncaught
    /\ sessionIds < MaxSessions
    /\ sessionIds' = sessionIds + 1
    /\ LET id == sessionIds + 1
       IN IF ~character
            THEN /\ activeSessions' = [activeSessions EXCEPT ![id] = SessionRecord(FALSE, 0, 0)]
                 /\ last' = Respond("create", id, 200)
                 /\ UNCHANGED <<objects, creating, sock>>
          ELSE IF ~restOk
            THEN /\ last' = Respond("create", id, 500)
                 /\ UNCHANGED <<activeSessions, objects, creating, sock>>
          ELSE IF ~endpoint
            THEN /\ activeSessions' = [activeSessions EXCEPT ![id] = SessionRecord(TRUE, 0, 0)]
                 /\ last' = Respond("create", id, 200)
                 /\ UNCHANGED <<objects, creating, sock>>
          ELSE IF ~ctorOk
            THEN /\ objects' = Append(objects, NewPair)
                 /\ activeSessions' = [activeSessions EXCEPT ![id] = CreateWithoutChannel]
                 /\ last' = [Respond("create", id, 200) EXCEPT !.settled = "rejected"]
                 /\ UNCHANGED <<creating, sock>>
          ELSE /\ sock' = Append(sock, "CONNECTING")
               /\ objects' = Append(objects, [NewPair EXCEPT !.client.ws = Len(sock) + 1,
                                                             !.made = Len(sock) + 1])
               /\ creating' = creating \cup {[sessionId |-> id, object |-> Len(objects) + 1]}
               /\ last' = Obs("create", id)
               /\ UNCHANGED activeSessions
    /\ UNCHANGED <<client, bridge, reconnectTimers, intervals, speakTimers, listeners,
                   connectCalls, abnormalCloses, uncaught>>

\* the record the route stores after connect() resolved: the channel and the
\* bridge this request constructed
StoredAfterConnect_FirstPair(p) == SessionRecord(TRUE, 1, 1)

StoredAfterConnect(p) == SessionRecord(TRUE, p.object, p.object)

\* the socket of a creation that awaits connect() opens: the open handler runs,
\* the promise resolves and the route stores the record with both objects
CreateOpened(p) ==
    /\ ~uncaught
    /\ p \in creating
    /\ sock[objects[p.object].made] = "CONNECTING"
    /\ sock' = [sock EXCEPT ![objects[p.object].made] = "OPEN"]
    /\ LET t == FreshInterval(intervals)
       IN /\ objects' = [objects EXCEPT ![p.object].client = onOpen(@, t)]
          /\ intervals' = intervals \cup {t}
    /\ activeSessions' =
         [activeSessions EXCEPT ![p.sessionId] = StoredAfterConnect(p)]
    /\ creating' = creating \ {p}
    /\ last' = [Respond("create", p.sessionId, 200) EXCEPT !.emitted = <<"connected">>,
                                                           !.settled = "resolved"]
    /\ UNCHANGED <<client, bridge, reconnectTimers, speakTimers, listeners,
                   connectCalls, abnormalCloses, uncaught, sessionIds>>

\* the socket of a creation that awaits connect() reports 'error': with an
\* 'error' subscriber the promise is rejected and the route stores the record
\* without the objects; with none, emit('error') throws out of the transport's
\* callback and the request is never answered
CreateFailed(p) ==
    /\ ~uncaught
    /\ p \in creating
    /\ sock[objects[p.object].made] = "CONNECTING"
    /\ sock' = [sock EXCEPT ![objects[p.object].made] = "FAILED"]
    /\ IF "error" \in objects[p.object].listeners
         THEN /\ activeSessions' =
                   [activeSessions EXCEPT ![p.sessionId] = CreateWithoutChannel]
              /\ creating' = creating \ {p}
              /\ last' = [Respond("create", p.sessionId, 200) EXCEPT
                            !.emitted = <<"error">>, !.settled = "rejected"]
              /\ UNCHANGED uncaught
         ELSE /\ last' = [Obs("create", p.sessionId) EXCEPT
                            !.emitted = <<"error">>, !.threw = TRUE]
              /\ uncaught' = TRUE
              /\ UNCHANGED <<activeSessions, creating>>
    /\ UNCHANGED <<client, bridge, reconnectTimers, intervals, speakTimers, listeners,
                   connectCalls, abnormalCloses, objects, sessionIds>>

\* the legacy forwarding of the relay: the text it posts as a REST task
LegacyText(entry, ev) ==
    IF entry.heygenSessionId /\ ev.type = "input_text" THEN ev.text ELSE ""

\* whether an exception of the bridge leaves the relay's call of it: the try
\* around the call catches and logs it
bridgeErrorEscapes_NoCatch(m) == m.threw

bridgeErrorEscapes(m) == FALSE

\* a handler that did not run
Idle == HandlerOn(NewPair.bridge, NewPair.client, {})

\* POST /api/realtime/events
Relay(id, ev, taskOk) ==
    /\ ~uncaught
    /\ taskOk \/ LegacyText(activeSessions[id], ev) \notin {"", NotAString}
    /\ LET entry == activeSessions[id]
           o == entry.openaiHeyGenBridge
           m == IF o # 0 THEN processOpenAIEvent(HandlerOf(o), ev) ELSE Idle
           text == LegacyText(entry, ev)
       IN IF ~entry.stored
            THEN /\ last' = Respond("relay", id, 404)
                 /\ UNCHANGED objects
            ELSE /\ objects' = IF o # 0 THEN [objects EXCEPT ![o].bridge = BridgeOf(m)]
                               ELSE objects
                 /\ last' =
                      IF o # 0 /\ bridgeErrorEscapes(m)
                        THEN [Outcome("relay", id, m) EXCEPT !.status = 500]
                      ELSE IF text = NotAString
                        THEN [Outcome("relay", id, m) EXCEPT !.status = 500]
                      ELSE IF text # ""
                        THEN [Outcome("relay", id, m) EXCEPT
                                !.posted = <<"streaming.task">>,
                                !.status = IF taskOk THEN 200 ELSE 500]
                      ELSE [Outcome("relay", id, m) EXCEPT !.status = 200]
    /\ UNCHANGED <<client, bridge, sock, reconnectTimers, intervals, speakTimers,
                   listeners, connectCalls, abnormalCloses, uncaught, activeSessions,
                   creating, sessionIds>>

\* the state a session without a bridge reports
NoBridgeState_HasWebSocket ==
    [hasWebSocket |-> TRUE, isConnected |-> FALSE, isSpeaking |-> FALSE,
     isListening |-> FALSE, currentSpeakEventId |-> 0]

NoBridgeState ==
    [hasWebSocket |-> FALSE, isConnected |-> FALSE, isSpeaking |-> FALSE,
     isListening |-> FALSE, currentSpeakEventId |-> 0]

\* the state a session with a bridge reports
BridgeState(o) ==
    LET st == getState(objects[o].bridge, objects[o].client, sock)
    IN [hasWebSocket |-> TRUE, isConnected |-> st.isConnected,
        isSpeaking |-> st.isSpeaking, isListening |-> st.isListening,
        currentSpeakEventId |-> st.currentSpeakEventId]

\* GET /api/heygen/state/:sessionId
StateQuery(id) ==
    /\ ~uncaught
    /\ LET entry == activeSessions[id]
       IN last' = IF ~entry.stored THEN Respond("state", id, 404)
                  ELSE [Respond("state", id, 200) EXCEPT
                          !.body = IF entry.openaiHeyGenBridge # 0
                                     THEN BridgeState(entry.openaiHeyGenBridge)
                                     ELSE NoBridgeState]
    /\ UNCHANGED <<client, bridge, sock, reconnectTimers, intervals, speakTimers,
                   listeners, connectCalls, abnormalCloses, uncaught>>
    /\ UNCHANGED registry

ControlActions == {"speak", "interrupt", "start_listening", "stop_listening", "other"}

\* the bridge operation a control action calls
controlled(m, action) ==
    CASE action = "speak" -> speakText(m)
      [] action = "interrupt" -> interrupt(m)
      [] action = "start_listening" -> startListening(m)
      [] OTHER -> stopListening(m)

\* POST /api/heygen/control/:sessionId
Control(id, action, text) ==
    /\ ~uncaught
    /\ text \/ action = "speak"
    /\ LET o == activeSessions[id].openaiHeyGenBridge
       IN IF o = 0
            THEN /\ last' = Respond("control", id, 404)
                 /\ UNCHANGED objects
          ELSE IF action = "other" \/ (action = "speak" /\ ~text)
            THEN /\ last' = Respond("control", id, 400)
                 /\ UNCHANGED objects
          ELSE LET m == controlled(HandlerOf(o), action)
                   timers == IF action = "speak" /\ ~m.threw
                               THEN objects[o].speakTimers \cup {m.ret}
                               ELSE objects[o].speakTimers
               IN /\ action = "speak" => Cardinality(objects[o].speakTimers) < MaxSpeakTimers
                  /\ objects' = [objects EXCEPT ![o].bridge = BridgeOf(m),
                                                ![o].speakTimers = timers]
                  /\ last' = IF m.threw
                               THEN [Outcome("control", id, m) EXCEPT !.status = 500]
                               ELSE [Outcome("control", id, m) EXCEPT
                                       !.status = 200,
                                       !.body = getState(BridgeOf(m), objects[o].client, sock)]
    /\ UNCHANGED <<client, bridge, sock, reconnectTimers, intervals, speakTimers,
                   listeners, connectCalls, abnormalCloses, uncaught, activeSessions,
                   creating, sessionIds>>

\* the continuation of a speakText call on the bridge of pair o fires
PairSpeakTimerFire(o, id) ==
    /\ ~uncaught
    /\ id \in objects[o].speakTimers
    /\ LET m == speakTextTimeout(HandlerOf(o))
       IN /\ objects' = [objects EXCEPT ![o].bridge = BridgeOf(m),
                                        ![o].speakTimers = @ \ {id}]
          /\ last' = Outcome("speakTimeout", o, m)
          /\ uncaught' = m.threw
    /\ UNCHANGED <<client, bridge, sock, reconnectTimers, intervals, speakTimers,
                   listeners, connectCalls, abnormalCloses, activeSessions, creating,
                   sessionIds>>

\* the socket of pair o delivers a message
PairMessage(o, msg) ==
    /\ ~uncaught
    /\ objects[o].made # 0
    /\ sock[objects[o].made] = "OPEN"
    /\ LET topics == onMessage(msg, objects[o].listeners)
           heard == {topics[i] : i \in 1..Len(topics)} \cap objects[o].listeners
                        \cap BridgeTopics
       IN /\ objects' = IF heard = {} THEN objects
                        ELSE [objects EXCEPT
                                ![o].bridge = OnProviderEvent(@, CHOOSE t \in heard : TRUE)]
          /\ last' = [Obs("message", o) EXCEPT !.emitted = topics]
    /\ UNCHANGED <<client, bridge, sock, reconnectTimers, intervals, speakTimers,
                   listeners, connectCalls, abnormalCloses, uncaught, activeSessions,
                   creating, sessionIds>>

\* the socket of pair o, closed by the client, reports 'close': with the normal
\* code when the provider answers the closing handshake, with the abnormal one
\* when the connection is lost before; the close handler runs
PairClosed(o, code) ==
    /\ ~uncaught
    /\ objects[o].made # 0
    /\ sock[objects[o].made] = "CLOSING"
    /\ sock' = [sock EXCEPT ![objects[o].made] = "CLOSED"]
    /\ objects' =
         [objects EXCEPT
            ![o].client = stopHeartbeat([@ EXCEPT !.isConnected = FALSE]),
            ![o].reconnectTimers =
                IF ShouldReconnect(objects[o].client, code) THEN @ + 1 ELSE @]
    /\ intervals' = ClearedIntervals(objects[o].client, intervals)
    /\ last' = [Obs("close", o) EXCEPT
                  !.emitted = <<"disconnected">>,
                  !.scheduled = IF ShouldReconnect(objects[o].client, code)
                                  THEN ScheduledDelay(objects[o].client) ELSE -1]
    /\ UNCHANGED <<client, bridge, reconnectTimers, speakTimers, listeners,
                   connectCalls, abnormalCloses, uncaught, activeSessions, creating,
                   sessionIds>>

\* a reconnection timer of the channel of pair o fires: the counter goes up and
\* connect() creates a socket (one more than the sessions' own, at most)
PairReconnect(o) ==
    /\ ~uncaught
    /\ objects[o].reconnectTimers > 0
    /\ Len(sock) < MaxSessions + 1
    /\ sock' = Append(sock, "CONNECTING")
    /\ objects' = [objects EXCEPT ![o].reconnectTimers = @ - 1,
                                  ![o].client.reconnectAttempts = @ + 1,
                                  ![o].client.ws = Len(sock) + 1,
                                  ![o].made = Len(sock) + 1]
    /\ last' = Obs("reconnect", o)
    /\ UNCHANGED <<client, bridge, reconnectTimers, intervals, speakTimers, listeners,
                   connectCalls, abnormalCloses, uncaught, activeSessions, creating,
                   sessionIds>>

\* the socket of a reconnection of pair o opens: the open handler runs
PairOpened(o) ==
    /\ ~uncaught
    /\ objects[o].made # 0
    /\ \A p \in creating : p.object # o
    /\ sock[objects[o].made] = "CONNECTING"
    /\ sock' = [sock EXCEPT ![objects[o].made] = "OPEN"]
    /\ LET t == FreshInterval(intervals)
       IN /\ objects' = [objects EXCEPT ![o].client = onOpen(@, t)]
          /\ intervals' = intervals \cup {t}
    /\ last' = [Obs("open", o) EXCEPT !.emitted = <<"connected">>, !.settled = "resolved"]
    /\ UNCHANGED <<client, bridge, reconnectTimers, speakTimers, listeners,
                   connectCalls, abnormalCloses, uncaught, activeSessions, creating,
                   sessionIds>>

\* the socket of a reconnection of pair o reports 'error': nobody subscribed
\* to the channel's 'error' topic, so emit('error') throws out of the
\* transport's callback
PairFailed(o) ==
    /\ ~uncaught
    /\ objects[o].made # 0
    /\ \A p \in creating : p.object # o
    /\ sock[objects[o].made] = "CONNECTING"
    /\ "error" \notin objects[o].listeners
    /\ sock' = [sock EXCEPT ![objects[o].made] = "FAILED"]
    /\ last' = [Obs("error", o) EXCEPT !.emitted = <<"error">>, !.threw = TRUE]
    /\ uncaught' = TRUE
    /\ UNCHANGED <<client, bridge, reconnectTimers, intervals, speakTimers, listeners,
                   connectCalls, abnormalCloses, activeSessions, objects, creating,
                   sessionIds>>

\* bridge.destroy() and then channel.disconnect(), as the stop and teardown
\* routes call them on the objects a record refers to: the pairs, the running
\* intervals and the sockets afterwards
Released(entry) ==
    LET b == entry.openaiHeyGenBridge
        afterDestroy ==
            IF b = 0 THEN [objs |-> objects, ivs |-> intervals, socks |-> sock]
            ELSE IF ~objects[b].bridge.heygenClient
              THEN [objs |-> [objects EXCEPT ![b].bridge = destroy(@)],
                    ivs |-> intervals, socks |-> sock]
            ELSE [objs |-> [objects EXCEPT ![b].bridge = destroy(@),
                                           ![b].client = disconnect(@)],
                  ivs |-> ClearedIntervals(objects[b].client, intervals),
                  socks |-> ClosedByClient(objects[b].client, sock)]
        c == entry.heygenWsClient
    IN IF c = 0 THEN afterDestroy
       ELSE [objs |-> [afterDestroy.objs EXCEPT ![c].client = disconnect(@)],
             ivs |-> ClearedIntervals(afterDestroy.objs[c].client, afterDestroy.ivs),
             socks |-> ClosedByClient(afterDestroy.objs[c].client, afterDestroy.socks)]

\* POST /api/heygen/stop
Stop(id) ==
    /\ ~uncaught
    /\ LET r == Released(activeSessions[id])
       IN /\ objects' = r.objs
          /\ intervals' = r.ivs
          /\ sock' = r.socks
    /\ activeSessions' = [activeSessions EXCEPT ![id].openaiHeyGenBridge = 0,
                                                ![id].heygenWsClient = 0]
    /\ last' = Respond("stop", id, 200)
    /\ UNCHANGED <<client, bridge, reconnectTimers, speakTimers, listeners,
                   connectCalls, abnormalCloses, uncaught, creating, sessionIds>>

\* the registry after the teardown route: the provider's close call comes
\* before the removal, and its failure leaves the route through the catch
teardown(id, closeOk) ==
    IF activeSessions[id].heygenSessionId /\ ~closeOk THEN activeSessions
    ELSE [activeSessions EXCEPT ![id] = NoSession]

\* DELETE /session/:sessionId
Teardown(id, closeOk) ==
    /\ ~uncaught
    /\ LET entry == activeSessions[id]
           r == Released(entry)
       IN IF ~entry.stored
            THEN /\ last' = Respond("teardown", id, 404)
                 /\ UNCHANGED <<objects, intervals, sock, activeSessions>>
            ELSE /\ objects' = r.objs
                 /\ intervals' = r.ivs
                 /\ sock' = r.socks
                 /\ activeSessions' = teardown(id, closeOk)
                 /\ last' = [Respond("teardown", id,
                                     IF entry.heygenSessionId /\ ~closeOk THEN 500 ELSE 200)
                               EXCEPT !.posted = IF entry.heygenSessionId
                                                   THEN <<"streaming.stop">> ELSE <<>>]
    /\ UNCHANGED <<client, bridge, reconnectTimers, speakTimers, listeners,
                   connectCalls, abnormalCloses, uncaught, creating, sessionIds>>

\* ---- the machine --------------------------------------------------------------

\* after construction: a channel that was never connected, and a bridge built
\* over it (subscribed to its provider events) or built without a channel;
\* the wiring may or may not have subscribed to the channel's 'error' topic
Init ==
    /\ client = [ws |-> 0, isConnected |-> FALSE, reconnectAttempts |-> 0,
                 heartbeatInterval |-> 0]
    /\ \E attached \in BOOLEAN, onError \in SUBSET {"error"} :
         /\ bridge = [heygenClient |-> attached, currentSpeakEventId |-> 0,
                      isListening |-> FALSE]
         /\ listeners = (IF attached THEN BridgeTopics ELSE {}) \cup onError
    /\ sock = <<>>
    /\ reconnectTimers = EmptyBag
    /\ intervals = {}
    /\ speakTimers = {}
    /\ connectCalls = 0
    /\ abnormalCloses = 0
    /\ uncaught = FALSE
    /\ activeSessions = [id \in 1..MaxSessions |-> NoSession]
    /\ objects = <<>>
    /\ creating = {}
    /\ sessionIds = 0
    /\ last = NoObs

\* the channel alone, driven through its own operations, its transport and
\* its timers
Next ==
    \/ Connect(MaxSockets, MaxConnectCalls)
    \/ \E s \in DOMAIN sock : SockOpen(s)
    \/ \E s \in DOMAIN sock : SockError(s)
    \/ \E s \in DOMAIN sock, code \in CloseCodes : SockClose(s, code)
    \/ \E d \in BagToSet(reconnectTimers) : ReconnectTimerFire(d, MaxSockets)
    \/ Disconnect
    \/ \E t \in intervals : HeartbeatTick(t)

Spec == Init /\ [][Next]_vars

\* the channel's command operations, called in every state of a channel
NextSend ==
    \/ Connect(BridgeSockets, BridgeSockets)
    \/ \E s \in DOMAIN sock : SockOpen(s)
    \/ \E s \in DOMAIN sock : SockError(s)
    \/ \E s \in DOMAIN sock, code \in CloseCodes : SockClose(s, code)
    \/ \E d \in BagToSet(reconnectTimers) : ReconnectTimerFire(d, BridgeSockets)
    \/ Disconnect
    \/ \E type \in CommandTypes : CallSend(type)
    \/ \E t \in intervals : HeartbeatTick(t)

SpecSend == Init /\ [][NextSend]_vars

\* the bridge over its channel
NextBridge ==
    \/ Connect(BridgeSockets, BridgeSockets)
    \/ \E s \in DOMAIN sock : SockOpen(s)
    \/ \E s \in DOMAIN sock, msg \in Messages : SockMessage(s, msg)
    \/ \E s \in DOMAIN sock : SockError(s)
    \/ \E s \in DOMAIN sock, code \in CloseCodes : SockClose(s, code)
    \/ \E d \in BagToSet(reconnectTimers) : ReconnectTimerFire(d, BridgeSockets)
    \/ \E t \in intervals : HeartbeatTick(t)
    \/ \E ev \in OpenAIEvents : ProcessOpenAIEvent(ev)
    \/ SpeakText
    \/ \E id \in speakTimers : SpeakTimerFire(id)
    \/ Interrupt
    \/ StartListening
    \/ StopListening
    \/ GetState
    \/ Destroy

SpecBridge == Init /\ [][NextBridge]_vars

\* the events the browser relays: one of each kind the relay tells apart
RelayedEvents ==
    {ev \in OpenAIEvents :
        \/ ev.type = "response.audio" /\ ev.audio = "pcm"
        \/ ev.type \in {"response.done", "input_audio", "input_audio.stop"}
        \/ ev.type \in {"response.text", "input_text"}}
      \cup [type : {"input_text"}, audio : {""}, text : {"hello", NotAString}]

\* the registry's routes over the sessions' channels and bridges; the provider
\* keeps an open control channel open until the client closes it, and answers
\* the closing handshake
NextRegistry ==
    \/ \E character, restOk, endpoint, ctorOk \in BOOLEAN :
         CreateSession(character, restOk, endpoint, ctorOk)
    \/ \E p \in creating : CreateOpened(p)
    \/ \E p \in creating : CreateFailed(p)
    \/ \E id \in 1..MaxSessions, ev \in RelayedEvents, taskOk \in BOOLEAN :
         Relay(id, ev, taskOk)
    \/ \E id \in 1..MaxSessions : StateQuery(id)
    \/ \E id \in 1..MaxSessions, action \in ControlActions, text \in BOOLEAN :
         Control(id, action, text)
    \/ \E o \in DOMAIN objects : \E id \in objects[o].speakTimers : PairSpeakTimerFire(o, id)
    \/ \E o \in DOMAIN objects, msg \in Messages : PairMessage(o, msg)
    \/ \E o \in DOMAIN objects : PairClosed(o, NormalClosure)
    \/ \E id \in 1..MaxSessions : Stop(id)
    \/ \E id \in 1..MaxSessions, closeOk \in BOOLEAN : Teardown(id, closeOk)

\* no channel or bridge exists outside the registry's sessions
InitRegistry == Init /\ ~bridge.heygenClient /\ listeners = {}

SpecRegistry == InitRegistry /\ [][NextRegistry]_vars

\* the life of the registry's channels: creation, stop and teardown, where the
\* closing handshake of a released channel may be lost (close code 1006) and
\* the channel's own reconnection then runs
NextRelease ==
    \/ \E character, restOk, endpoint, ctorOk \in BOOLEAN :
         CreateSession(character, restOk, endpoint, ctorOk)
    \/ \E p \in creating : CreateOpened(p)
    \/ \E p \in creating : CreateFailed(p)
    \/ \E id \in 1..MaxSessions : Stop(id)
    \/ \E id \in 1..MaxSessions, closeOk \in BOOLEAN : Teardown(id, closeOk)
    \/ \E o \in DOMAIN objects, code \in CloseCodes : PairClosed(o, code)
    \/ \E o \in DOMAIN objects : PairReconnect(o)
    \/ \E o \in DOMAIN objects : PairOpened(o)
    \/ \E o \in DOMAIN objects : PairFailed(o)

SpecRelease == InitRegistry /\ [][NextRelease]_vars

\* ---- claims ---------------------------------------------------------------------

\* the commands a handler issued, by type, and those that were transmitted
Types(out) == [i \in 1..Len(out) |-> out[i].type]
AllSent(out) == \A i \in 1..Len(out) : out[i].result = "sent"

Controls == {"speakText", "interrupt", "startListening", "stopListening"}

\* C2 (P3): after a direct control on a bridge whose channel is not connected,
\* the call has not thrown and the bridge claims no speaking or listening state
\* whose command was not transmitted.
C2_NoStateForDroppedCommand ==
    (last.op \in Controls /\ ~client.isConnected)
        => /\ ~last.threw
           /\ \A i \in 1..Len(last.out) :
                last.out[i].result # "sent"
                    => /\ last.out[i].type = "agent.speak"
                            => bridge.currentSpeakEventId # last.out[i].event_id
                       /\ last.out[i].type = "agent.start_listening"
                            => ~bridge.isListening

\* C3 (P5): the reconnection attempt that becomes the channel's nth (the timer's
\* callback has just counted it) was scheduled with a delay of n x 1000 ms.
C3_NthDelayIsNSeconds ==
    last.op = "reconnect" => last.arg = client.reconnectAttempts * reconnectDelay

\* C4 (P4): an abnormal closure that is at least the sixth in a row, with no
\* open between them, schedules no reconnection; a closure with code 1000
\* never schedules one.
C4_SixthClosureSchedulesNothing ==
    last.op = "close"
        => /\ (last.arg # NormalClosure /\ abnormalCloses > maxReconnectAttempts)
                => last.scheduled = -1
           /\ last.arg = NormalClosure => last.scheduled = -1

\* C5: while the channel is deliberately disconnected (disconnect() or destroy()
\* cleared the socket reference and no connect() has run since), no reconnection
\* timer fires and the channel does not become Connected.
C5_NoReconnectAfterDisconnect ==
    [][(client.ws = 0 /\ last'.op # "connect")
        => (last'.op # "reconnect" /\ ~client'.isConnected)]_vars

\* C6: a heartbeat timer exists iff the channel is Connected: one keep-alive
\* interval runs while connected, none otherwise.
C6_HeartbeatIffConnected ==
    /\ client.isConnected <=> client.heartbeatInterval # 0
    /\ intervals = IF client.isConnected THEN {client.heartbeatInterval} ELSE {}

\* the sockets created and not yet opened or closed
InFlight == {s \in DOMAIN sock : sock[s] \in {"CONNECTING", "ABORTED"}}

\* C7: at most one connection attempt is in flight.
C7_OneAttemptInFlight == Cardinality(InFlight) <= 1

\* C8: a command operation transmits only while the channel is Connected; on a
\* channel that is not connected it does not throw, transmits nothing, and
\* still returns the identifier it generated, which names nothing else.
C8_DroppedWhenNotConnected ==
    last.op = "send"
        => /\ Len(last.out) = 1
           /\ last.out[1].type = last.arg
           /\ last.out[1].result = "sent" => client.isConnected
           /\ ~client.isConnected
                => /\ last.out[1].result = "dropped"
                   /\ ~last.threw
                   /\ last.ret = last.out[1].event_id
                   /\ last.ret \notin {0, bridge.currentSpeakEventId} \cup speakTimers

\* a command was dropped on a channel that had been connected and closed
C8_Witness ==
    /\ last.op = "send"
    /\ last.arg = "agent.audio_buffer_clear"
    /\ ~client.isConnected
    /\ \E s \in DOMAIN sock : sock[s] = "CLOSED"
    /\ last.out[1].result = "dropped"
    /\ last.ret # 0

\* C9: processOpenAIEvent on a bridge with no channel, or whose channel is not
\* open, whatever the event, issues no command, leaves the bridge as it was and does not throw.
C9_NoEffectWhenNotOpen ==
    [][(/\ ~bridge.heygenClient \/ ~isConnectionOpen(client, sock)
        /\ last'.op = "processOpenAIEvent")
        => /\ last'.out = <<>>
           /\ ~last'.threw
           /\ bridge' = bridge]_vars

\* an event was processed by a listening bridge whose channel had closed
C9_Witness ==
    /\ last.op = "processOpenAIEvent"
    /\ bridge.heygenClient
    /\ bridge.isListening
    /\ ~isConnectionOpen(client, sock)
    /\ \E s \in DOMAIN sock : sock[s] = "CLOSED"
    /\ last.out = <<>>

\* C10 (scenario A): input_text on an open channel issues agent.start_listening
\* then agent.audio_buffer_clear and sets isListening when the bridge was not
\* listening, and only agent.audio_buffer_clear when it was; currentSpeakEventId
\* is unchanged.
C10_InputText ==
    [][last'.op = "processOpenAIEvent" => \A ev \in OpenAIEvents :
         (/\ ev.type = "input_text"
          /\ bridge.heygenClient /\ isConnectionOpen(client, sock)
          /\ ProcessOpenAIEvent(ev))
        => /\ Types(last'.out) =
                IF bridge.isListening
                  THEN <<"agent.audio_buffer_clear">>
                  ELSE <<"agent.start_listening", "agent.audio_buffer_clear">>
           /\ AllSent(last'.out)
           /\ bridge'.isListening
           /\ bridge'.currentSpeakEventId = bridge.currentSpeakEventId]_vars

\* input_text made a speaking bridge listen with the two commands
C10_Witness ==
    /\ last.op = "processOpenAIEvent"
    /\ last.arg = "input_text"
    /\ Types(last.out) = <<"agent.start_listening", "agent.audio_buffer_clear">>
    /\ bridge.isListening
    /\ bridge.currentSpeakEventId # 0

\* the bridge has a channel and the channel is open
OnOpenChannel == bridge.heygenClient /\ isConnectionOpen(client, sock)

\* C11 (scenario B): response.done on an open channel issues exactly one
\* agent.speak_end and clears currentSpeakEventId when a speech is in flight,
\* and issues nothing and changes nothing when none is; isListening is
\* unchanged in both cases.
C11_ResponseDone ==
    [][(/\ OnOpenChannel
        /\ last'.op = "processOpenAIEvent"
        /\ ProcessOpenAIEvent([type |-> "response.done", audio |-> "", text |-> ""]))
        => /\ IF bridge.currentSpeakEventId # 0
                THEN /\ Types(last'.out) = <<"agent.speak_end">>
                     /\ AllSent(last'.out)
                     /\ bridge'.currentSpeakEventId = 0
                ELSE /\ last'.out = <<>>
                     /\ bridge' = bridge
           /\ bridge'.isListening = bridge.isListening
           /\ ~last'.threw]_vars

\* response.done ended the speech of a listening bridge
C11_Witness ==
    /\ last.op = "processOpenAIEvent"
    /\ last.arg = "response.done"
    /\ Types(last.out) = <<"agent.speak_end">>
    /\ bridge.currentSpeakEventId = 0
    /\ bridge.isListening

\* C12 (scenario C): input_audio on an open channel issues agent.interrupt when
\* a speech is in flight, then agent.start_listening when the bridge is not
\* listening, in that order, each omitted when its precondition does not hold;
\* afterwards no speech is in flight and the bridge is listening.
C12_InputAudio ==
    [][(/\ OnOpenChannel
        /\ last'.op = "processOpenAIEvent"
        /\ ProcessOpenAIEvent([type |-> "input_audio", audio |-> "", text |-> ""]))
        => /\ Types(last'.out) =
                (IF bridge.currentSpeakEventId # 0
                   THEN <<"agent.interrupt">> ELSE <<>>)
                \o (IF ~bridge.isListening
                      THEN <<"agent.start_listening">> ELSE <<>>)
           /\ AllSent(last'.out)
           /\ bridge'.currentSpeakEventId = 0
           /\ bridge'.isListening
           /\ ~last'.threw]_vars

\* input_audio interrupted a speech and started listening
C12_Witness ==
    /\ last.op = "processOpenAIEvent"
    /\ last.arg = "input_audio"
    /\ Types(last.out) = <<"agent.interrupt", "agent.start_listening">>
    /\ bridge.currentSpeakEventId = 0
    /\ bridge.isListening

\* C13 (scenario D): when a socket of the channel reports open, the channel is
\* Connected, its heartbeat interval is running, the reconnect-attempt counter
\* is 0, the connect() promise of that socket is resolved and `connected` was
\* emitted once.
C13_Open ==
    last.op = "open"
        => /\ client.isConnected
           /\ client.heartbeatInterval # 0
           /\ client.heartbeatInterval \in intervals
           /\ client.reconnectAttempts = 0
           /\ last.settled = "resolved"
           /\ last.emitted = <<"connected">>
           /\ ~last.threw

\* the socket of an automatic reconnection opened, after a single connect()
C13_Witness ==
    /\ last.op = "open"
    /\ connectCalls = 1
    /\ last.arg > 1
    /\ sock[last.arg] = "OPEN"
    /\ client.ws = last.arg

\* C14 (P2): on a bridge with a channel, startListening() issues exactly one
\* agent.start_listening when the bridge is not listening and leaves it
\* listening, and a startListening() right after another issues nothing;
\* stopListening() on a listening bridge issues exactly one agent.stop_listening
\* and leaves it not listening, and one right after another issues nothing;
\* neither changes currentSpeakEventId.
C14_ListeningIdempotent ==
    [][/\ (bridge.heygenClient /\ last'.op = "startListening")
         => /\ Types(last'.out) =
                 IF bridge.isListening THEN <<>> ELSE <<"agent.start_listening">>
            /\ bridge'.isListening
            /\ bridge'.currentSpeakEventId = bridge.currentSpeakEventId
            /\ last.op = "startListening" => last'.out = <<>>
       /\ (bridge.heygenClient /\ last'.op = "stopListening")
         => /\ Types(last'.out) =
                 IF bridge.isListening THEN <<"agent.stop_listening">> ELSE <<>>
            /\ ~bridge'.isListening
            /\ bridge'.currentSpeakEventId = bridge.currentSpeakEventId
            /\ last.op = "stopListening" => last'.out = <<>>]_vars

\* what getState() returns for a bridge in the empty state
EmptyState ==
    [isConnected |-> FALSE, isSpeaking |-> FALSE, isListening |-> FALSE,
     currentSpeakEventId |-> 0]

\* C15 (P6): destroy() does not throw and leaves the empty observable state,
\* the channel reference released and the channel it had disconnected; a
\* destroy() right after another changes nothing.
C15_DestroyTwice ==
    [][last'.op = "destroy"
        => /\ ~last'.threw
           /\ getState(bridge', client', sock') = EmptyState
           /\ ~bridge'.heygenClient
           /\ bridge.heygenClient
                => /\ client'.ws = 0
                   /\ ~client'.isConnected
                   /\ client'.heartbeatInterval = 0
                   /\ ~isConnectionOpen(client', sock')
           /\ last.op = "destroy"
                => /\ bridge' = bridge
                   /\ client' = client
                   /\ sock' = sock
                   /\ intervals' = intervals]_vars

\* destroy() ran on a bridge whose channel was connected
C15_Witness ==
    /\ last.op = "destroy"
    /\ \E s \in DOMAIN sock : sock[s] = "CLOSING"
    /\ ~bridge.heygenClient
    /\ client.ws = 0

\* C16: a transport error on a socket that has not opened rejects that socket's
\* connect() promise, and no transport error or closure raises an exception
\* out of the channel's handlers, whether or not 'error' has a subscriber.
C16_ErrorRejectsNeverThrows ==
    [][/\ \A s \in DOMAIN sock :
            (/\ sock[s] \in {"CONNECTING", "ABORTED"}
             /\ last'.op = "error" /\ last'.arg = s)
            => last'.settled = "rejected"
       /\ last'.op \in {"error", "close"}
            => ~last'.threw /\ ~uncaught']_vars

\* C17: the channel never makes more than 5 automatic reconnection attempts
\* without an open between them; once the 5th has failed and closed, it is not
\* connected and no reconnection timer is pending; and a failed attempt throws
\* nothing.
C17_AtMostFiveReconnects ==
    /\ client.reconnectAttempts <= maxReconnectAttempts
    /\ (/\ client.reconnectAttempts >= maxReconnectAttempts
        /\ \A s \in DOMAIN sock : sock[s] = "CLOSED")
        => reconnectTimers = EmptyBag /\ ~client.isConnected
    /\ last.op \in {"error", "close", "reconnect"} => ~last.threw /\ ~uncaught

\* C18: a message that does not parse to an event is dropped: nothing is
\* emitted, channel and bridge state are unchanged, the socket stays as it
\* was, and nothing is thrown out of the message handler.
C18_MalformedDropped ==
    [][(last'.op = "message" /\ last'.arg \in Unparsable)
        => /\ last'.emitted = <<>>
           /\ ~last'.threw /\ ~uncaught'
           /\ client' = client
           /\ bridge' = bridge
           /\ sock' = sock
           /\ intervals' = intervals
           /\ reconnectTimers' = reconnectTimers]_vars

\* a malformed message arrived on a connected channel during a speech
C18_Witness ==
    /\ last.op = "message"
    /\ last.arg = "malformed"
    /\ isConnectionOpen(client, sock)
    /\ bridge.currentSpeakEventId # 0

\* how many times a message was emitted under a topic
Count(emitted, topic) == Cardinality({i \in 1..Len(emitted) : emitted[i] = topic})

\* C19: a parsed event of any type is emitted exactly once under its own type
\* and exactly once under the generic topic, its own type first.
C19_EmittedOnceEach ==
    (last.op = "message" /\ last.arg \in InboundTypes)
        => /\ Count(last.emitted, last.arg) = 1
           /\ Count(last.emitted, "event") = 1
           /\ last.emitted[1] = last.arg

\* C20: disconnect() never throws and leaves the heartbeat stopped, the socket
\* reference cleared and the channel not open; it closes only the socket the
\* channel referred to, and a disconnect() right after another changes nothing.
C20_DisconnectIdempotent ==
    [][last'.op = "disconnect"
        => /\ ~last'.threw
           /\ client'.heartbeatInterval = 0
           /\ intervals' = {}
           /\ client'.ws = 0
           /\ ~client'.isConnected
           /\ ~isConnectionOpen(client', sock')
           /\ \A s \in DOMAIN sock :
                sock'[s] = IF s = client.ws THEN wsClose(sock[s]) ELSE sock[s]
           /\ last.op = "disconnect"
                => /\ client' = client
                   /\ sock' = sock
                   /\ intervals' = intervals]_vars

\* the relayed events that end a speech, and the provider events that do
ResponseDone == [type |-> "response.done", audio |-> "", text |-> ""]
InputAudio == [type |-> "input_audio", audio |-> "", text |-> ""]
SpeechEndedTopics == {"agent.speak_ended", "agent.speak_interrupted"}

\* C21: currentSpeakEventId becomes non-none only as the identifier of a speak
\* command issued in that step, and it is none after every step in which the
\* bridge observes a provider ended/interrupted event, a response.done, an
\* input_audio or an interrupt(); so it is non-none only while a speech command
\* was issued and none of these has been observed since.
C21_SpeakingOnlyUntilTerminated ==
    [][/\ (bridge'.currentSpeakEventId # 0
           /\ bridge'.currentSpeakEventId # bridge.currentSpeakEventId)
          => \E i \in 1..Len(last'.out) :
                /\ last'.out[i].type = "agent.speak"
                /\ last'.out[i].event_id = bridge'.currentSpeakEventId
       /\ (\/ last'.op = "interrupt"
           \/ /\ last'.op = "processOpenAIEvent"
              /\ ProcessOpenAIEvent(ResponseDone) \/ ProcessOpenAIEvent(InputAudio)
           \/ /\ last'.op = "message"
              /\ last'.arg \in SpeechEndedTopics \cap listeners)
          => bridge'.currentSpeakEventId = 0]_vars

\* the last listening command a handler issued (one whose send returned), ""
\* when it issued none
ListeningCommands == {"agent.start_listening", "agent.stop_listening"}
LastListeningCommand(out) ==
    LET idx == {i \in 1..Len(out) : /\ out[i].type \in ListeningCommands
                                    /\ out[i].result # "threw"}
    IN IF idx = {} THEN ""
       ELSE out[CHOOSE i \in idx : \A j \in idx : j <= i].type

\* C22 as claimed: isListening is true exactly when the last listening command
\* issued was start-listening: a step that issues one sets it accordingly, and
\* a step that issues none (a provider event, a connect or disconnect of the
\* channel, or anything else) leaves it as it was.
C22_ListeningIsLastCommand ==
    [][LET c == LastListeningCommand(last'.out)
       IN /\ c = "agent.start_listening" => bridge'.isListening
          /\ c = "agent.stop_listening" => ~bridge'.isListening
          /\ c = "" => bridge'.isListening = bridge.isListening]_vars

\* C22 as amended: the same, except that destroy() resets isListening to false
\* without issuing a command.
C22_ListeningIsLastCommandOrDestroyed ==
    [][LET c == LastListeningCommand(last'.out)
       IN /\ c = "agent.start_listening" => bridge'.isListening
          /\ c = "agent.stop_listening" => ~bridge'.isListening
          /\ (c = "" /\ last'.op # "destroy")
                => bridge'.isListening = bridge.isListening
          /\ last'.op = "destroy" => ~bridge'.isListening]_vars

\* a provider event arrived at a listening bridge and left it listening
C22_Witness ==
    /\ last.op = "message"
    /\ last.arg = "agent.speak_ended"
    /\ bridge.isListening
    /\ bridge.currentSpeakEventId = 0

\* C23: speakText on an open channel issues one agent.speak with an empty
\* payload, makes its identifier the current one and leaves a continuation
\* pending; a continuation that fires right after its speakText issues exactly
\* one agent.speak_end; and every continuation that fires leaves
\* currentSpeakEventId none, so each speakText is followed by such a state.
C23_SpeakTextEnds ==
    [][/\ (OnOpenChannel /\ last'.op = "speakText")
          => /\ Types(last'.out) = <<"agent.speak">>
             /\ last'.out[1].audio = ""
             /\ AllSent(last'.out)
             /\ last'.ret # 0
             /\ bridge'.currentSpeakEventId = last'.ret
             /\ last'.ret \in speakTimers'
       /\ (OnOpenChannel /\ last.op = "speakText" /\ last'.op = "speakTimeout")
          => /\ Types(last'.out) = <<"agent.speak_end">>
             /\ AllSent(last'.out)
       /\ last'.op = "speakTimeout"
          => bridge'.currentSpeakEventId = 0 /\ ~last'.threw]_vars

\* the utterance a speakText call started is current and its continuation is
\* still pending
InSpeakTextDelay == bridge.currentSpeakEventId # 0 /\ bridge.currentSpeakEventId \in speakTimers

\* C24: an interrupt() or an input_audio event during the speakText delay
\* clears currentSpeakEventId and issues exactly one agent.interrupt; a
\* continuation that fires next issues nothing and leaves it none; and while a
\* continuation is pending the bridge still takes events.
C24_InterruptDuringDelay ==
    [][/\ (/\ InSpeakTextDelay
           /\ \/ last'.op = "interrupt"
              \/ last'.op = "processOpenAIEvent" /\ ProcessOpenAIEvent(InputAudio))
          => /\ bridge'.currentSpeakEventId = 0
             /\ Count(Types(last'.out), "agent.interrupt") = 1
             /\ ~last'.threw
       /\ (/\ last.op = "interrupt" \/ last.arg = "input_audio"
           /\ last'.op = "speakTimeout")
          => /\ last'.out = <<>>
             /\ bridge'.currentSpeakEventId = 0
       /\ (speakTimers # {} /\ ~uncaught)
          => ENABLED (\E ev \in OpenAIEvents : ProcessOpenAIEvent(ev))]_vars

\* ---- the session registry ----------------------------------------------------

\* C25: every completed teardown request for an existing session removes the
\* session's registry entry, also when the provider's close call fails, so no
\* entry refers to a destroyed bridge or a disconnected channel after teardown
C25_TeardownRemovesEntry ==
    (last.op = "teardown" /\ last.status # 404) => ~activeSessions[last.arg].stored

\* the channel and the bridge a record refers to
Owned(entry) == {entry.heygenWsClient, entry.openaiHeyGenBridge} \ {0}

\* a stored record without channel and bridge
Bare(entry) == entry.stored /\ Owned(entry) = {}

BridgeTouching == {"relay", "state", "control"}

\* C26: on a session whose record has no channel and no bridge, the relay, the
\* state query and the direct control do nothing and do not throw: the relay
\* issues no avatar command, the state query returns the all-false state, and
\* no bridge or channel is created
C26_BareSessionNoOp ==
    [][(last'.op \in BridgeTouching /\ Bare(activeSessions[last'.arg]))
          => /\ ~last'.threw
             /\ last'.out = <<>> /\ last'.posted = <<>>
             /\ last'.op = "state" =>
                  last'.body = [hasWebSocket |-> FALSE, isConnected |-> FALSE,
                                isSpeaking |-> FALSE, isListening |-> FALSE,
                                currentSpeakEventId |-> 0]
             /\ objects' = objects /\ activeSessions' = activeSessions]_vars

\* C26, amended: on such a session the three operations change no record, no
\* channel and no bridge and do not throw; the relay issues no command on a
\* control channel, and posts a REST task only for a record with an avatar
\* session id; the state query returns the all-false state; the direct control
\* answers 404
C26_BareSessionNoChannelCommand ==
    [][(last'.op \in BridgeTouching /\ Bare(activeSessions[last'.arg]))
          => /\ ~last'.threw
             /\ last'.out = <<>>
             /\ last'.posted # <<>> =>
                  /\ last'.op = "relay"
                  /\ activeSessions[last'.arg].heygenSessionId
                  /\ last'.posted = <<"streaming.task">>
             /\ last'.op = "state" =>
                  /\ last'.status = 200
                  /\ last'.body = [hasWebSocket |-> FALSE, isConnected |-> FALSE,
                                   isSpeaking |-> FALSE, isListening |-> FALSE,
                                   currentSpeakEventId |-> 0]
             /\ last'.op = "control" => last'.status = 404
             /\ objects' = objects /\ activeSessions' = activeSessions
             /\ sock' = sock]_vars

\* a relay on a session without channel and bridge has posted a REST task
C26_Witness ==
    /\ last.op = "relay"
    /\ Bare(activeSessions[last.arg])
    /\ last.posted = <<"streaming.task">>
    /\ last.status = 200

\* C27: a failure of the bridge while it processes a relayed event does not
\* abort the relay: the request is answered with success and the registry is
\* as before
C27_BridgeFailureCaught ==
    [][(last'.op = "relay" /\ last'.threw)
          => last'.status = 200 /\ activeSessions' = activeSessions]_vars

\* a relay in which the bridge threw was answered with success
C27_Witness ==
    /\ last.op = "relay"
    /\ last.threw
    /\ last.status = 200
    /\ activeSessions[last.arg].openaiHeyGenBridge # 0

\* C28: a session creation whose control channel fails to connect is answered
\* with success and stores a record with neither channel nor bridge; one whose
\* connect succeeds stores both; one without avatar coordination stores neither
C28_CreationOutcome ==
    last.op = "create" =>
        /\ (last.settled = "rejected" \/ last.emitted = <<"error">>) =>
              /\ last.status = 200
              /\ Bare(activeSessions[last.arg])
        /\ last.settled = "resolved" =>
              /\ last.status = 200
              /\ activeSessions[last.arg].heygenWsClient # 0
              /\ activeSessions[last.arg].openaiHeyGenBridge # 0
        /\ (last.status = 200 /\ ~activeSessions[last.arg].heygenSessionId) =>
              Bare(activeSessions[last.arg])

\* the socket a pair's channel was connected with
SocketOf(o) == IF objects[o].made = 0 THEN {} ELSE {objects[o].made}

\* every channel, bridge and socket but those of the pairs in own is as before
OthersUntouched(own) ==
    /\ \A o \in DOMAIN objects \ own :
         /\ objects'[o] = objects[o]
         /\ \A s \in SocketOf(o) : sock'[s] = sock[s]

\* C29: a relay to, a control operation on, a provider event received by, or
\* a teardown of one session changes no other session's record, channel or
\* bridge, and no channel or bridge is referred to by two records
C29_SessionsIsolated ==
    [][/\ \A a, b \in 1..MaxSessions :
            a # b => Owned(activeSessions'[a]) \cap Owned(activeSessions'[b]) = {}
       /\ last'.op \in {"relay", "control", "teardown"} =>
            /\ \A t \in 1..MaxSessions \ {last'.arg} : activeSessions'[t] = activeSessions[t]
            /\ OthersUntouched(Owned(activeSessions[last'.arg]))
       /\ last'.op = "message" =>
            /\ activeSessions' = activeSessions
            /\ OthersUntouched({last'.arg})]_vars

\* two sessions that each have a channel and a bridge; an event relayed to one
\* made its bridge issue commands, and the bridges are in different states
C29_Witness ==
    /\ last.op = "relay"
    /\ last.out # <<>>
    /\ \E t \in 1..MaxSessions \ {last.arg} :
         /\ activeSessions[t].openaiHeyGenBridge # 0
         /\ activeSessions[last.arg].openaiHeyGenBridge # 0
         /\ objects[activeSessions[t].openaiHeyGenBridge].bridge
              # objects[activeSessions[last.arg].openaiHeyGenBridge].bridge

\* ---- superseded connection attempts -------------------------------------------

\* C30: an open or close callback of a socket the channel no longer refers to
\* (replaced by a newer connect() or abandoned by disconnect()) changes neither
\* the connected flag nor the heartbeat and schedules no reconnection
C30_LateCallbackIgnored ==
    [][(last'.op \in {"open", "close"} /\ (\E s \in DOMAIN sock : sock'[s] # sock[s] /\ s # client.ws))
          => /\ client'.isConnected = client.isConnected
             /\ client'.heartbeatInterval = client.heartbeatInterval
             /\ intervals' = intervals
             /\ reconnectTimers' = reconnectTimers]_vars

\* ---- the bridge's remaining operations ----------------------------------------

\* C31: interrupt() on a bridge with a channel and a speech in flight issues
\* exactly one agent.interrupt and clears currentSpeakEventId; called again, or
\* with no speech in flight, or with no channel, it issues nothing and changes
\* nothing; it never changes isListening
C31_InterruptIdempotent ==
    [][last'.op = "interrupt" =>
         /\ bridge'.isListening = bridge.isListening
         /\ IF bridge.heygenClient /\ bridge.currentSpeakEventId # 0
              THEN /\ Types(last'.out) = <<"agent.interrupt">>
                   /\ bridge'.currentSpeakEventId = 0
              ELSE /\ last'.out = <<>>
                   /\ bridge' = bridge
         /\ last.op = "interrupt" => (last'.out = <<>> /\ bridge' = bridge)]_vars

\* C32: input_audio.stop on an open channel issues exactly one
\* agent.stop_listening and clears isListening when the bridge is listening,
\* issues nothing and changes nothing when it is not; currentSpeakEventId is
\* unchanged in both cases
C32_InputAudioStop ==
    [][(/\ OnOpenChannel
        /\ last'.op = "processOpenAIEvent"
        /\ ProcessOpenAIEvent([type |-> "input_audio.stop", audio |-> "", text |-> ""]))
        => /\ Types(last'.out) =
                IF bridge.isListening THEN <<"agent.stop_listening">> ELSE <<>>
           /\ AllSent(last'.out)
           /\ ~bridge'.isListening
           /\ ~bridge.isListening => bridge' = bridge
           /\ bridge'.currentSpeakEventId = bridge.currentSpeakEventId
           /\ ~last'.threw]_vars

\* input_audio.stop made a speaking, listening bridge stop listening
C32_Witness ==
    /\ last.op = "processOpenAIEvent"
    /\ last.arg = "input_audio.stop"
    /\ Types(last.out) = <<"agent.stop_listening">>
    /\ ~bridge.isListening
    /\ bridge.currentSpeakEventId # 0

\* the event types the bridge only logs
LoggedTypes ==
    {"response.text", "response.text.delta", "response.audio_transcript.done",
     "response.text.done", "error", "unhandled"}

\* C33: a text chunk, a final transcript, an error event or an event of an
\* unrecognised type issues no command and leaves currentSpeakEventId and
\* isListening as they were, whether the event reached the switch or not
C33_LoggedOnly ==
    [][(last'.op = "processOpenAIEvent" /\ last'.arg \in LoggedTypes \cup {""})
        => /\ last'.out = <<>>
           /\ bridge' = bridge]_vars

\* a text chunk reached the switch of a bridge that is speaking and listening
C33_Witness ==
    /\ last.op = "processOpenAIEvent"
    /\ last.arg = "response.text"
    /\ ~last.threw
    /\ bridge.isListening
    /\ bridge.currentSpeakEventId # 0

\* C34: an audio chunk event without payload issues no command, leaves
\* currentSpeakEventId and isListening as they were and raises no error
C34_EmptyAudioChunk ==
    [][(/\ last'.op = "processOpenAIEvent"
        /\ \E t \in AudioTypes :
             ProcessOpenAIEvent([type |-> t, audio |-> "", text |-> ""]))
        => /\ last'.out = <<>>
           /\ bridge' = bridge
           /\ ~last'.threw]_vars

\* an audio chunk event reached the switch of an idle bridge and nothing was sent
C34_Witness ==
    /\ last.op = "processOpenAIEvent"
    /\ last.arg \in AudioTypes
    /\ last.out = <<>>
    /\ bridge.currentSpeakEventId = 0
    /\ OnOpenChannel

\* C35 (P10): getState() is a pure query: it changes no bridge or channel state
\* and issues no command; it reports isSpeaking exactly when a speech id is
\* set, the current isListening and speech id, and isConnected exactly when a
\* channel is attached whose flag is set and whose transport is open.
C35_GetStatePure ==
    [][last'.op = "getState"
        => /\ UNCHANGED <<client, bridge, sock, reconnectTimers, intervals,
                          speakTimers, listeners>>
           /\ last'.out = <<>> /\ ~last'.threw
           /\ last'.body.isSpeaking = (bridge.currentSpeakEventId # 0)
           /\ last'.body.isListening = bridge.isListening
           /\ last'.body.currentSpeakEventId = bridge.currentSpeakEventId
           /\ last'.body.isConnected
                 = (/\ bridge.heygenClient
                    /\ client.isConnected
                    /\ client.ws # 0
                    /\ sock[client.ws] = "OPEN")]_vars

\* getState() on a channel whose flag is set while its transport is not open
C35_Witness ==
    /\ last.op = "getState"
    /\ bridge.heygenClient /\ client.isConnected
    /\ ~last.body.isConnected
    /\ last.body.isSpeaking /\ last.body.isListening

\* C36 (P11): a provider event agent.speak_ended or agent.speak_interrupted
\* the bridge hears sets currentSpeakEventId to none, issues no command and
\* leaves isListening as it was; agent.speak_started, agent.idle_started and
\* agent.idle_ended change no bridge state.
C36_ProviderEvents ==
    [][last'.op = "message"
        => /\ last'.out = <<>>
           /\ bridge'.isListening = bridge.isListening
           /\ bridge'.heygenClient = bridge.heygenClient
           /\ last'.arg \in SpeechEndedTopics \cap listeners
                => bridge'.currentSpeakEventId = 0
           /\ last'.arg \in BridgeTopics \ SpeechEndedTopics
                => bridge' = bridge]_vars

\* the provider reported an interruption while the bridge, listening, still
\* awaited the end of a speakText utterance
C36_Witness ==
    /\ last.op = "message"
    /\ last.arg = "agent.speak_interrupted"
    /\ speakTimers # {}
    /\ bridge.isListening
    /\ bridge.currentSpeakEventId = 0

\* C37: the delayed continuation of a speakText call ends only the utterance
\* that call started: when another utterance is the current one by the time it
\* fires, it issues no agent.speak_end and leaves that utterance's id in place.
C37_ContinuationEndsOwnUtterance ==
    [][last'.op = "speakTimeout"
        => \A id \in speakTimers \ speakTimers' :
              (bridge.currentSpeakEventId # 0 /\ bridge.currentSpeakEventId # id)
                => /\ last'.out = <<>>
                   /\ bridge'.currentSpeakEventId = bridge.currentSpeakEventId]_vars

\* a bridge that had a channel and gave it up: destroy() was called on it
Destroyed == ~bridge.heygenClient /\ BridgeTopics \subseteq listeners

\* the steps that run code of the bridge: its operations, the continuation of
\* speakText and its listeners on the channel
BridgeOps ==
    {"processOpenAIEvent", "speakText", "speakTimeout", "interrupt",
     "startListening", "stopListening", "getState", "destroy", "message"}

\* C38: once destroy() was called on a bridge its observable state is the
\* empty state and stays so whatever follows, and no later step of the bridge
\* (an operation, a pending speakText continuation, a late provider event)
\* issues a command; all that is still sent is the channel's own keep-alive.
C38_DestroyedStaysEmpty ==
    [][(last'.op = "destroy" \/ Destroyed)
        => /\ Destroyed => Destroyed'
           /\ ~bridge'.heygenClient
           /\ getState(bridge', client', sock') = EmptyState
           /\ last'.op \in BridgeOps => last'.out = <<>>
           /\ \A i \in 1..Len(last'.out) : last'.out[i].type = "session.keep_alive"]_vars

\* the continuation of a speakText call fired after destroy(), on a channel
\* that was connected again since
C38_Witness ==
    /\ Destroyed
    /\ last.op = "speakTimeout"
    /\ last.out = <<>>
    /\ client.isConnected

\* ---- channels the registry let go of --------------------------------------------

\* pair o is the channel of a stored record, or of a creation that still
\* awaits its connect()
Referenced(o) ==
    \/ \E id \in 1..MaxSessions :
          activeSessions[id].stored /\ activeSessions[id].heygenWsClient = o
    \/ \E p \in creating : p.object = o

\* C39: a channel no registry entry refers to (abandoned by a creation whose
\* connect() failed, or released by teardown or stop) has no pending
\* reconnection timer, is not Connected and runs no heartbeat.
C39_UnreferencedChannelInert ==
    \A o \in DOMAIN objects :
        ~Referenced(o)
          => /\ objects[o].reconnectTimers = 0
             /\ ~objects[o].client.isConnected
             /\ objects[o].client.heartbeatInterval = 0

\* C40: every stored session record has a bridge exactly when it has a
\* channel, and that bridge is the one constructed over that channel (the two
\* were made as one pair); creation, stop and teardown keep it so.
C40_BridgeIffChannel ==
    \A id \in 1..MaxSessions :
        activeSessions[id].stored
          => /\ (activeSessions[id].openaiHeyGenBridge # 0)
                   = (activeSessions[id].heygenWsClient # 0)
             /\ activeSessions[id].openaiHeyGenBridge = activeSessions[id].heygenWsClient
             /\ activeSessions[id].heygenWsClient \in {0} \cup DOMAIN objects

\* one session holds its channel and bridge while another, whose constructor
\* failed or which was stopped, holds neither
C40_Witness ==
    \E id, other \in 1..MaxSessions :
        /\ activeSessions[id].stored /\ activeSessions[id].heygenWsClient # 0
        /\ activeSessions[id].openaiHeyGenBridge = activeSessions[id].heygenWsClient
        /\ activeSessions[other].stored /\ activeSessions[other].heygenSessionId
        /\ activeSessions[other].heygenWsClient = 0
        /\ activeSessions[other].openaiHeyGenBridge = 0
        /\ Len(objects) = MaxSessions

====
